---- MODULE Spec2Model ----
(***************************************************************************)
(* Line-range surgery scripts of oras-desktop:                             *)
(*   cleanup_mainviewmodel.py  - marks line indices of MainViewModel.cs    *)
(*                               for removal and rewrites the file;        *)
(*   replace_artifact_panel.py - replaces the artifact panel of            *)
(*                               MainView.axaml by a five line component.  *)
(* A text line is modelled by the outcome of every substring / prefix test *)
(* the scripts apply to it.  Indices are 0-based as in the scripts.        *)
(***************************************************************************)
EXTENDS Integers, Sequences, FiniteSets, TLC

VARIABLES prog, pc, file, input, lines, lines_to_remove, k, in_region,
          region_start, region_end, new_lines, start_line, end_line,
          writes, exit_status

vars == <<prog, pc, file, input, lines, lines_to_remove, k, in_region,
          region_start, region_end, new_lines, start_line, end_line,
          writes, exit_status>>

\* ------------------------------------------------------------------ bounds
\* longest MainViewModel.cs input, in lines
MaxLen == 3
\* most lines of a MainView.axaml input from index MinEndIndex - 1 on
MaxPanelTail == 4

\* ------------------------------------------------------- python primitives
\* Python's None (start variables before a match, end_line before a match)
None == -1000

\* len(lines)
len(ls) == Len(ls)

\* lines[j], with Python's negative indexing
At(ls, j) == IF j < 0 THEN ls[Len(ls) + j + 1] ELSE ls[j + 1]

\* range(a, b) as the set of indices it yields
range(a, b) == a .. (b - 1)

\* Python slice bound normalisation for a sequence of length n
Clamp(a, n) == IF a < 0 THEN (IF a + n < 0 THEN 0 ELSE a + n)
               ELSE (IF a > n THEN n ELSE a)

\* lines[:b]
SliceTo(ls, b) == SubSeq(ls, 1, Clamp(b, Len(ls)))

\* lines[a:]
SliceFrom(ls, a) == SubSeq(ls, Clamp(a, Len(ls)) + 1, Len(ls))

\* ------------------------------------------------- cleanup: line predicates
\* the seven method regions, in the order the script scans them:
\* 1 LoadReferrersAsync, 2 DeleteManifestAsync, 3 CopyReferenceWithTagAsync,
\* 4 CopyReferenceWithDigestAsync, 5 ViewPlatformManifestAsync,
\* 6 UpdateReferrerNodeContextMenu, 7 OnDigestManifestRequested
Methods == 1 .. 7

\* the regions whose end test also accepts a line starting with 'public '
PublicToo == {6, 7}

\* A line of MainViewModel.cs:
\*   sub    - which '<X>ContextMenu.ManifestRequested +=' strings it contains
\*   cmt    - which '// Wire up <X>ContextMenu' strings it contains
\*   cues   - the methods whose start cue (the declaration text) it contains
\*   names  - the methods whose bare name it contains (a cue contains the name)
\*   prefix - what line.strip() starts with: "private", "public" or "other"
Line(sub, cmt, cues, names, prefix) ==
    [sub |-> sub, cmt |-> cmt, cues |-> cues, names |-> names, prefix |-> prefix]

\* 'DigestContextMenu.ManifestRequested +=' in line
IsDigestSubscription(line) == "Digest" \in line.sub

\* 'ReferrerNodeContextMenu.ManifestRequested +=' in line
IsReferrerSubscription(line) == "Referrer" \in line.sub

\* '// Wire up DigestContextMenu' in line
IsDigestComment(line) == "Digest" \in line.cmt

\* '// Wire up ReferrerNodeContextMenu' in line
IsReferrerComment(line) == "Referrer" \in line.cmt

\* the start test of region m: the declaration text occurs in the line
StartPredicate(m, line) == m \in line.cues

\* the end test of region m: a sibling declaration not mentioning the name
EndPredicate(m, line) ==
    /\ \/ line.prefix = "private"
       \/ m \in PublicToo /\ line.prefix = "public"
    /\ m \notin line.names

\* ------------------------------------------------------- cleanup: the loops
\* the subscription loop without the i > 0 guards: lines[-1] is consulted
RECURSIVE SubscriptionLoop_NoGuard(_, _, _)
SubscriptionLoop_NoGuard(ls, i, acc) ==
    IF i >= len(ls) THEN acc
    ELSE IF IsDigestSubscription(At(ls, i))
         THEN SubscriptionLoop_NoGuard(ls, i + 1,
                  acc \cup {i} \cup
                  (IF IsDigestComment(At(ls, i - 1)) THEN {i - 1} ELSE {}))
    ELSE IF IsReferrerSubscription(At(ls, i))
         THEN SubscriptionLoop_NoGuard(ls, i + 1,
                  acc \cup {i} \cup
                  (IF IsReferrerComment(At(ls, i - 1)) THEN {i - 1} ELSE {}))
    ELSE SubscriptionLoop_NoGuard(ls, i + 1, acc)

\* step 1: the subscription loop from index i on, acc = lines_to_remove
RECURSIVE SubscriptionLoop(_, _, _)
SubscriptionLoop(ls, i, acc) ==
    IF i >= len(ls) THEN acc
    ELSE IF IsDigestSubscription(At(ls, i))
         THEN SubscriptionLoop(ls, i + 1,
                  acc \cup {i} \cup
                  (IF i > 0 /\ IsDigestComment(At(ls, i - 1)) THEN {i - 1} ELSE {}))
    ELSE IF IsReferrerSubscription(At(ls, i))
         THEN SubscriptionLoop(ls, i + 1,
                  acc \cup {i} \cup
                  (IF i > 0 /\ IsReferrerComment(At(ls, i - 1)) THEN {i - 1} ELSE {}))
    ELSE SubscriptionLoop(ls, i + 1, acc)

\* the scan loop marking range(start + 1, i): it keeps the declaration line
RECURSIVE MethodLoop_KeepsStart(_, _, _, _)
MethodLoop_KeepsStart(ls, m, i, st) ==
    IF i >= len(ls) THEN st
    ELSE IF StartPredicate(m, At(ls, i))
         THEN MethodLoop_KeepsStart(ls, m, i + 1,
                  [st EXCEPT !.in = TRUE, !.start = i])
    ELSE IF st.in /\ EndPredicate(m, At(ls, i))
         THEN [in |-> FALSE, start |-> st.start, end |-> i,
               marks |-> range(st.start + 1, i)]
    ELSE MethodLoop_KeepsStart(ls, m, i + 1, st)

\* steps 2-8: the scan loop of region m from index i on;
\* st = [in, start, end, marks] are in_<m>, <m>_start, i at the break and the
\* indices added to lines_to_remove
RECURSIVE MethodLoop(_, _, _, _)
MethodLoop(ls, m, i, st) ==
    IF i >= len(ls) THEN st
    ELSE IF StartPredicate(m, At(ls, i))
         THEN MethodLoop(ls, m, i + 1, [st EXCEPT !.in = TRUE, !.start = i])
    ELSE IF st.in /\ EndPredicate(m, At(ls, i))
         THEN [in |-> FALSE, start |-> st.start, end |-> i,
               marks |-> range(st.start, i)]
    ELSE MethodLoop(ls, m, i + 1, st)

\* the comprehension testing i + 1 instead of i
RECURSIVE Comprehension_Shifted(_, _, _)
Comprehension_Shifted(ls, i, removed) ==
    IF i >= len(ls) THEN << >>
    ELSE (IF (i + 1) \notin removed THEN << At(ls, i) >> ELSE << >>)
         \o Comprehension_Shifted(ls, i + 1, removed)

\* [lines[i] for i in range(len(lines)) if i not in lines_to_remove]
RECURSIVE Comprehension(_, _, _)
Comprehension(ls, i, removed) ==
    IF i >= len(ls) THEN << >>
    ELSE (IF i \notin removed THEN << At(ls, i) >> ELSE << >>)
         \o Comprehension(ls, i + 1, removed)

\* --------------------------------------------------- panel: line predicates
\* the scan ignores an end comment at an index not above this one
MinEndIndex == 60

\* A line of MainView.axaml: whether it contains the start comment
\* '<!-- Right side: Artifact Details Panel -->' and the end comment
\* '<!--  Row 2: Reference  -->'
PanelLine(s, e) == [startMarker |-> s, endMarker |-> e]

\* the five lines of the ArtifactView component; the first one repeats the
\* start comment
Replacement ==
    << PanelLine(TRUE, FALSE), PanelLine(FALSE, FALSE), PanelLine(FALSE, FALSE),
       PanelLine(FALSE, FALSE), PanelLine(FALSE, FALSE) >>

\* the marker loop without the i > 60 test
RECURSIVE PanelLoop_AnyIndex(_, _, _)
PanelLoop_AnyIndex(ls, i, s) ==
    IF i >= len(ls) THEN [start_line |-> s, end_line |-> None]
    ELSE LET s1 == IF At(ls, i).startMarker THEN i ELSE s
         IN  IF s1 # None /\ At(ls, i).endMarker
             THEN [start_line |-> s1, end_line |-> i - 2]
             ELSE PanelLoop_AnyIndex(ls, i + 1, s1)

\* the marker loop from index i on; s is start_line so far
RECURSIVE PanelLoop(_, _, _)
PanelLoop(ls, i, s) ==
    IF i >= len(ls) THEN [start_line |-> s, end_line |-> None]
    ELSE LET s1 == IF At(ls, i).startMarker THEN i ELSE s
         IN  IF s1 # None /\ At(ls, i).endMarker /\ i > MinEndIndex
             THEN [start_line |-> s1, end_line |-> i - 2]
             ELSE PanelLoop(ls, i + 1, s1)

\* new_lines: prefix, the component, suffix
Assemble(ls, s, e) == SliceTo(ls, s) \o Replacement \o SliceFrom(ls, e + 1)

\* ------------------------------------------------------------------ inputs
Plain           == Line({}, {}, {}, {}, "other")
DigestSub       == Line({"Digest"}, {}, {}, {}, "other")
ReferrerSub     == Line({"Referrer"}, {}, {}, {}, "other")
BothSub         == Line({"Digest", "Referrer"}, {}, {}, {}, "other")
DigestCmt       == Line({}, {"Digest"}, {}, {}, "other")
ReferrerCmt     == Line({}, {"Referrer"}, {}, {}, "other")
LoadStart       == Line({}, {}, {1}, {1}, "private")
HandlerStart    == Line({}, {}, {7}, {7}, "private")
HandlerStartOff == Line({}, {}, {7}, {7}, "other")
LoadOverload    == Line({}, {}, {}, {1}, "private")
PrivateSibling  == Line({}, {}, {}, {}, "private")
PublicSibling   == Line({}, {}, {}, {}, "public")

LineKinds == { Plain, DigestSub, ReferrerSub, BothSub, DigestCmt, ReferrerCmt,
               LoadStart, HandlerStart, HandlerStartOff, LoadOverload,
               PrivateSibling, PublicSibling }

SeqsUpTo(S, n) == UNION { [1 .. m -> S] : m \in 0 .. n }

CleanupInputs == SeqsUpTo(LineKinds, MaxLen)

PanelKinds == { PanelLine(s, e) : s \in BOOLEAN, e \in BOOLEAN }

\* the lines at indices 1 .. MinEndIndex - 2, none of them a marker
Padding == [j \in 1 .. (MinEndIndex - 2) |-> PanelLine(FALSE, FALSE)]

\* a file of at most one line, or a first line, the padding and a tail that
\* starts at index MinEndIndex - 1; markers sit on the first line and in the tail
PanelInputs ==
    SeqsUpTo(PanelKinds, 1) \cup
    { << h >> \o Padding \o t :
        h \in PanelKinds, t \in SeqsUpTo(PanelKinds, MaxPanelTail) }

\* ------------------------------------------------------------------- state
NoRegions == [m \in Methods |-> None]

Init ==
    /\ prog \in {"cleanup", "panel"}
    /\ file \in (IF prog = "cleanup" THEN CleanupInputs ELSE PanelInputs)
    /\ input = file
    /\ pc = "read"
    /\ lines = << >>
    /\ lines_to_remove = {}
    /\ k = 1
    /\ in_region = [m \in Methods |-> FALSE]
    /\ region_start = NoRegions
    /\ region_end = NoRegions
    /\ new_lines = << >>
    /\ start_line = None
    /\ end_line = None
    /\ writes = 0
    /\ exit_status = None

\* with open(file_path, 'r') as f: lines = f.readlines()
ReadFile ==
    /\ pc = "read"
    /\ lines' = file
    /\ pc' = IF prog = "cleanup" THEN "subscriptions" ELSE "markers"
    /\ UNCHANGED <<prog, file, input, lines_to_remove, k, in_region,
                   region_start, region_end, new_lines, start_line, end_line,
                   writes, exit_status>>

\* cleanup step 1
RemoveSubscriptions ==
    /\ prog = "cleanup" /\ pc = "subscriptions"
    /\ lines_to_remove' = SubscriptionLoop(lines, 0, lines_to_remove)
    /\ pc' = "scan"
    /\ UNCHANGED <<prog, file, input, lines, k, in_region, region_start,
                   region_end, new_lines, start_line, end_line, writes,
                   exit_status>>

\* cleanup steps 2-8, one region per step
ScanMethod ==
    /\ prog = "cleanup" /\ pc = "scan"
    /\ LET r == MethodLoop(lines, k, 0,
                   [in |-> FALSE, start |-> None, end |-> None, marks |-> {}])
       IN  /\ in_region' = [in_region EXCEPT ![k] = r.in]
           /\ region_start' = [region_start EXCEPT ![k] = r.start]
           /\ region_end' = [region_end EXCEPT ![k] = r.end]
           /\ lines_to_remove' = lines_to_remove \cup r.marks
    /\ IF k = 7 THEN pc' = "build" /\ k' = k
                ELSE pc' = "scan" /\ k' = k + 1
    /\ UNCHANGED <<prog, file, input, lines, new_lines, start_line, end_line,
                   writes, exit_status>>

\* cleanup: new_lines = [...]
BuildNewLines ==
    /\ prog = "cleanup" /\ pc = "build"
    /\ new_lines' = Comprehension(lines, 0, lines_to_remove)
    /\ pc' = "write"
    /\ UNCHANGED <<prog, file, input, lines, lines_to_remove, k, in_region,
                   region_start, region_end, start_line, end_line, writes,
                   exit_status>>

\* panel: the marker loop
FindMarkers ==
    /\ prog = "panel" /\ pc = "markers"
    /\ LET r == PanelLoop(lines, 0, None)
       IN  /\ start_line' = r.start_line
           /\ end_line' = r.end_line
    /\ pc' = "check"
    /\ UNCHANGED <<prog, file, input, lines, lines_to_remove, k, in_region,
                   region_start, region_end, new_lines, writes, exit_status>>

\* panel: if start_line is None or end_line is None: exit(1)
ExitNoMarkers ==
    /\ prog = "panel" /\ pc = "check"
    /\ start_line = None \/ end_line = None
    /\ pc' = "done"
    /\ exit_status' = 1
    /\ UNCHANGED <<prog, file, input, lines, lines_to_remove, k, in_region,
                   region_start, region_end, new_lines, start_line, end_line,
                   writes>>

\* panel: new_lines = prefix + component + suffix
AssembleNewLines ==
    /\ prog = "panel" /\ pc = "check"
    /\ ~(start_line = None \/ end_line = None)
    /\ new_lines' = Assemble(lines, start_line, end_line)
    /\ pc' = "write"
    /\ UNCHANGED <<prog, file, input, lines, lines_to_remove, k, in_region,
                   region_start, region_end, start_line, end_line, writes,
                   exit_status>>

\* with open(file_path, 'w') as f: f.writelines(new_lines)
WriteFile ==
    /\ pc = "write"
    /\ file' = new_lines
    /\ writes' = writes + 1
    /\ pc' = "done"
    /\ exit_status' = 0
    /\ UNCHANGED <<prog, input, lines, lines_to_remove, k, in_region,
                   region_start, region_end, new_lines, start_line, end_line>>

Next ==
    \/ ReadFile
    \/ RemoveSubscriptions
    \/ ScanMethod
    \/ BuildNewLines
    \/ FindMarkers
    \/ ExitNoMarkers
    \/ AssembleNewLines
    \/ WriteFile

Spec == Init /\ [][Next]_vars

\* ------------------------------------------------ vocabulary of the claims
\* the indices of a line sequence
Idx(ls) == 0 .. (Len(ls) - 1)

\* the least element of a non-empty set of integers
Least(S) == CHOOSE x \in S : \A y \in S : x <= y

\* the indices whose line holds the start cue of region m
CueIndices(m, ls) == { i \in Idx(ls) : StartPredicate(m, At(ls, i)) }

\* the indices after s whose line passes the end test of region m
EndIndices(m, ls, s) == { i \in Idx(ls) : i > s /\ EndPredicate(m, At(ls, i)) }

\* region m was resolved to [region_start[m], region_end[m])
Resolved(m) == region_end[m] # None

\* the indices of the resolved range of region m
RangeOf(m) == IF Resolved(m) THEN range(region_start[m], region_end[m]) ELSE {}

\* line i is a subscription line step 1 matches
Matched(ls, i) ==
    IsDigestSubscription(At(ls, i)) \/ IsReferrerSubscription(At(ls, i))

\* line i - 1 holds the companion comment of the subscription on line i
\* (the Digest comment when line i is handled as a Digest subscription)
Companion(ls, i) ==
    /\ i > 0
    /\ IF IsDigestSubscription(At(ls, i)) THEN IsDigestComment(At(ls, i - 1))
                                          ELSE IsReferrerComment(At(ls, i - 1))

\* the marks of step 1: the matched lines and their companion comment lines
SubscriptionBlocks(ls) ==
    { i \in Idx(ls) : Matched(ls, i) } \cup
    { i - 1 : i \in { j \in Idx(ls) : Matched(ls, j) /\ Companion(ls, j) } }

\* the cleanup script has finished
CleanupDone == prog = "cleanup" /\ pc = "done"

\* the panel script has resolved both markers
PanelFound == prog = "panel" /\ start_line # None /\ end_line # None

\* the sum of the lengths of the resolved ranges of regions 1 .. m
RECURSIVE RangeTotal(_)
RangeTotal(m) ==
    IF m = 0 THEN 0
    ELSE RangeTotal(m - 1) +
         (IF Resolved(m) THEN region_end[m] - region_start[m] ELSE 0)

\* the p-th (from 1) smallest element of a set of integers
Nth(S, p) == CHOOSE i \in S : Cardinality({ j \in S : j < i }) = p - 1

\* out holds exactly the lines of ls at the indices of keep, in index order
IsSelection(out, ls, keep) ==
    /\ Len(out) = Cardinality(keep)
    /\ \A p \in 1 .. Len(out) : out[p] = At(ls, Nth(keep, p))

\* ------------------------------------------------------------------ claims

\* C1: when the start line of some region is found in the input and no later
\* line passes that region's end test, the cleanup run aborts: the file is
\* never written and stays equal to the input.
C1_EndNotFoundAborts ==
    (/\ prog = "cleanup"
     /\ \E m \in Methods :
           /\ CueIndices(m, input) # {}
           /\ EndIndices(m, input, Least(CueIndices(m, input))) = {})
    => (writes = 0 /\ file = input)

\* C2: when the cleanup run writes the file, the step 1 marks and the seven
\* resolved method ranges are pairwise disjoint (an overlap aborts the run
\* before the write).
C2_RangesDisjoint ==
    (prog = "cleanup" /\ writes > 0)
    => /\ \A m \in Methods : RangeOf(m) \cap SubscriptionBlocks(lines) = {}
       /\ \A m, n \in Methods : m # n => RangeOf(m) \cap RangeOf(n) = {}

\* C3: the number of lines written is the input length minus the lengths of
\* the resolved ranges and the number of step 1 marks (cleanup), and the input
\* length minus (end_line - start_line + 1) plus 5 (panel).
C3_Conservation ==
    /\ (CleanupDone /\ writes > 0)
       => Len(file) = Len(input) - RangeTotal(7)
                      - Cardinality(SubscriptionBlocks(input))
    /\ (prog = "panel" /\ writes > 0)
       => Len(file) = Len(input) - (end_line - start_line + 1) + 5

\* C4: after the cleanup run on an input holding the start cue of a region,
\* no line of the file holds that region's start cue.
C4_StartGoneAfterCleanup ==
    CleanupDone
    => \A m \in Methods : CueIndices(m, input) # {} => CueIndices(m, file) = {}

\* C5: every resolved range satisfies 0 <= start < end <= len(lines); for the
\* panel, start_line <= end_line whenever both markers are found.
C5_RangeWellFormed ==
    /\ prog = "cleanup"
       => \A m \in Methods :
             Resolved(m) => /\ 0 <= region_start[m]
                            /\ region_start[m] < region_end[m]
                            /\ region_end[m] <= Len(lines)
    /\ PanelFound
       => (0 <= start_line /\ start_line <= end_line /\ end_line < Len(lines))

\* C6: a resolved range starts at the first line passing the start test and
\* ends at the first later line passing the end test; a later start line
\* never moves the start.
C6_FirstMatch ==
    /\ prog = "cleanup"
       => \A m \in Methods :
             Resolved(m) =>
                 /\ region_start[m] = Least(CueIndices(m, lines))
                 /\ region_end[m] = Least(EndIndices(m, lines, region_start[m]))
    /\ PanelFound
       => LET first == Least({ i \in Idx(lines) : At(lines, i).startMarker })
          IN  /\ start_line = first
              /\ end_line + 2 =
                   Least({ i \in Idx(lines) :
                            i >= first /\ i > MinEndIndex /\ At(lines, i).endMarker })

\* C7: when the cleanup run has resolved a method range [s, e) with s > 0 and
\* neither s - 1 nor e is marked, the input lines s - 1 and e are in the file
\* next to each other, at the position the unmarked lines before them give,
\* and the file holds one line per unmarked index (no gap, no duplicate).
C7_BoundaryTight ==
    CleanupDone
    => \A m \in Methods :
          (/\ Resolved(m)
           /\ region_start[m] > 0
           /\ (region_start[m] - 1) \notin lines_to_remove
           /\ region_end[m] \notin lines_to_remove)
          => LET s == region_start[m]
                 e == region_end[m]
                 p == Cardinality({ i \in Idx(input) :
                                     i < s - 1 /\ i \notin lines_to_remove }) + 1
             IN  /\ p + 1 <= Len(file)
                 /\ file[p] = At(input, s - 1)
                 /\ file[p + 1] = At(input, e)
                 /\ Len(file) = Cardinality(Idx(input) \ lines_to_remove)

\* C7 witness: a finished run with a resolved range whose neighbours s - 1
\* and e are both unmarked
C7_Witness ==
    /\ CleanupDone /\ writes = 1
    /\ \E m \in Methods :
          /\ Resolved(m)
          /\ region_start[m] > 0
          /\ (region_start[m] - 1) \notin lines_to_remove
          /\ region_end[m] \notin lines_to_remove

\* C8: the scans never modify the line sequence read from the file, every
\* marked index lies in 0 .. len(lines) - 1, and the file written is exactly
\* the lines at the unmarked indices, in index order.
C8_OrderPreservingSubsequence ==
    /\ pc # "read" => lines = input
    /\ prog = "cleanup" => lines_to_remove \subseteq Idx(input)
    /\ CleanupDone => IsSelection(file, input, Idx(input) \ lines_to_remove)

\* C8 witness: a finished run that removed two method ranges and kept a line
C8_Witness ==
    /\ CleanupDone /\ writes = 1
    /\ \E m, n \in Methods : m # n /\ Resolved(m) /\ Resolved(n)
    /\ Len(file) > 0
    /\ Len(file) < Len(input)

\* C9 as stated: after step 1 every matched subscription line i is marked,
\* line i - 1 is marked if and only if i > 0 and it holds the companion
\* comment, and index -1 is never marked.
C9_CompanionIff ==
    (prog = "cleanup" /\ pc = "scan" /\ k = 1)
    => /\ -1 \notin lines_to_remove
       /\ \A i \in Idx(lines) :
             Matched(lines, i)
             => /\ i \in lines_to_remove
                /\ i > 0 => ((i - 1) \in lines_to_remove <=> Companion(lines, i))

\* C9 amended: after step 1 every matched subscription line i is marked,
\* line i - 1 is marked if and only if i > 0 and it holds the companion
\* comment or is itself a matched subscription line, index -1 is never
\* marked, and nothing but matched lines and their companion comment lines
\* is marked.
C9_SubscriptionBlocks ==
    (prog = "cleanup" /\ pc = "scan" /\ k = 1)
    => /\ -1 \notin lines_to_remove
       /\ lines_to_remove = SubscriptionBlocks(lines)
       /\ \A i \in Idx(lines) :
             Matched(lines, i)
             => /\ i \in lines_to_remove
                /\ i > 0 => ((i - 1) \in lines_to_remove
                             <=> (Companion(lines, i) \/ Matched(lines, i - 1)))

\* C9 witness: step 1 has run on an input whose first line is a subscription
\* and that holds a comment line directly above another subscription
C9_Witness ==
    /\ prog = "cleanup" /\ pc = "scan" /\ k = 1
    /\ Len(lines) > 0 /\ Matched(lines, 0)
    /\ \E i \in Idx(lines) :
          Matched(lines, i) /\ Companion(lines, i) /\ ~Matched(lines, i - 1)

\* no line above MinEndIndex holds the end comment at or after a start comment
MarkersMissing(ls) ==
    ~ \E i \in Idx(ls) :
         /\ i > MinEndIndex
         /\ At(ls, i).endMarker
         /\ \E j \in Idx(ls) : j <= i /\ At(ls, j).startMarker

\* C10: the panel script writes at most once and only after the scan resolved
\* both markers; when the start comment is absent, or no line above index 60
\* at or after it holds the end comment, the script takes the exit(1) branch
\* and the file stays equal to the input.
C10_WriteOnlyAfterMarkers ==
    prog = "panel"
    => /\ writes <= 1
       /\ writes = 1 => (/\ pc = "done"
                         /\ exit_status = 0
                         /\ start_line # None /\ end_line # None
                         /\ ~MarkersMissing(input))
       /\ MarkersMissing(input)
          => /\ writes = 0 /\ file = input
             /\ pc \in {"read", "markers", "check", "done"}
             /\ pc = "check" => (start_line = None \/ end_line = None)
             /\ pc = "done" => exit_status = 1
       /\ (pc = "done" /\ ~MarkersMissing(input)) => (writes = 1 /\ exit_status = 0)

\* C10 witness: the script has exited with status 1 on an input that holds
\* both comments, the end comment only at indices not above 60
C10_Witness ==
    /\ prog = "panel" /\ pc = "done" /\ exit_status = 1
    /\ \E i \in Idx(input) : At(input, i).startMarker
    /\ \E i \in Idx(input) : At(input, i).endMarker

====
